---- MODULE Spec2Model ----
(***************************************************************************)
(* A model of ugulru.InMemoryCache (src/ugulru.go): an LRU cache with a    *)
(* TTL, built from a Go map[K]*list.Element and a container/list.List,     *)
(* guarded by one sync.Mutex.                                               *)
(*                                                                         *)
(* The struct is the variable c.  A *list.Element (with the *entry it      *)
(* carries) is an id; c.ent is the heap holding the entry of every id,     *)
(* c.cache the map from key to id, c.list the ids linked in the list,      *)
(* front first.  An element's own field e.list is "the id occurs in        *)
(* c.list".                                                                 *)
(***************************************************************************)
EXTENDS Integers, Sequences, FiniteSets, TLC

VARIABLES c, now, ret, touch, refreshed, loadedBy, gone, written, pc, req, mu, res

vars == <<c, now, ret, touch, refreshed, loadedBy, gone, written, pc, req, mu, res>>

\* ------------------------------------------------------------- bounds
NumKeys == 3
NumValues == 2
MaxCapacity == 2
MaxTtl == 1
MaxTime == 1
NumThreads == 2
ConcNumKeys == 2
ConcNumValues == 1
ConcMaxTime == 1
FairNumKeys == 1

Keys == 1..NumKeys
Values == 1..NumValues
Threads == 1..NumThreads
Nil == 0
Zero == 0
Ids == 1..(2 * NumKeys)
NoEntry == [key |-> 0, value |-> 0, timestamp |-> 0]

\* ------------------------------------------------------------ helpers
Range(s) == {s[i] : i \in 1..Len(s)}

IndexOf(s, e) == CHOOSE i \in 1..Len(s) : s[i] = e

Without(s, e) == SelectSeq(s, LAMBDA x : x # e)

\* the keys of the map c.cache
MapKeys(cc) == {k \in Keys : cc.cache[k] # Nil}

\* the keys of the entries linked in c.list, front first
ListKeys(cc) == [i \in 1..Len(cc.list) |-> cc.ent[cc.list[i]].key]

\* ids some pointer of the struct still reaches; the rest is garbage
Referenced(cc) == Range(cc.list) \cup {cc.cache[k] : k \in MapKeys(cc)}

Collect(cc) ==
    [cc EXCEPT !.ent = [i \in Ids |-> IF i \in Referenced(cc) THEN cc.ent[i] ELSE NoEntry]]

\* ------------------------------------------------- time and container/list
Since(ts, t) == t - ts

\* an entry that expires as soon as its age reaches ttl
ExpiredAtTtl(cc, e, t) == Since(cc.ent[e].timestamp, t) >= cc.ttl

Expired(cc, e, t) == Since(cc.ent[e].timestamp, t) > cc.ttl

ListLen(cc) == Len(cc.list)

Back(cc) == IF Len(cc.list) = 0 THEN Nil ELSE cc.list[Len(cc.list)]

\* Element.Prev: nil once the element is unlinked (e.list = nil), or at the front
Prev(cc, e) ==
    IF e \in Range(cc.list) /\ IndexOf(cc.list, e) > 1
    THEN cc.list[IndexOf(cc.list, e) - 1]
    ELSE Nil

\* List.Remove: unlinks e only if e.list == l
ListRemove(cc, e) ==
    IF e \in Range(cc.list) THEN [cc EXCEPT !.list = Without(cc.list, e)] ELSE cc

\* a MoveToFront that leaves the list as it is
MoveToFrontNoop(cc, e) == cc

\* List.MoveToFront: nothing if e.list != l or e is the front already
MoveToFront(cc, e) ==
    IF e \in Range(cc.list) THEN [cc EXCEPT !.list = <<e>> \o Without(cc.list, e)] ELSE cc

\* &entry{...} and the Element PushFront allocates for it: a fresh id
NewId(cc, key) ==
    CHOOSE i \in {key, key + NumKeys} :
        /\ i \notin Referenced(cc)
        /\ \A j \in {key, key + NumKeys} : j < i => j \in Referenced(cc)

PushFront(cc, key, value, t) ==
    LET e == NewId(cc, key) IN
    [cc EXCEPT !.list = <<e>> \o cc.list,
               !.ent[e] = [key |-> key, value |-> value, timestamp |-> t],
               !.cache[key] = e]

MapDelete(cc, key) == [cc EXCEPT !.cache[key] = Nil]

\* ------------------------------------------------------- the operations
NewInMemoryCache(capacity, ttl) ==
    [cache |-> [k \in Keys |-> Nil],
     list |-> <<>>,
     ent |-> [i \in Ids |-> NoEntry],
     capacity |-> capacity,
     ttl |-> ttl]

\* a Get that never looks at the timestamp
GetOpNoTtl(cc, key, t) ==
    LET elem == cc.cache[key] IN
    IF elem # Nil
    THEN [c |-> MoveToFront(cc, elem), value |-> cc.ent[elem].value, ok |-> TRUE]
    ELSE [c |-> cc, value |-> Zero, ok |-> FALSE]

\* a Get whose hit refreshes the timestamp
GetOpRefreshes(cc, key, t) ==
    LET elem == cc.cache[key] IN
    IF elem # Nil
    THEN IF Expired(cc, elem, t)
         THEN [c |-> ListRemove(cc, elem), value |-> Zero, ok |-> FALSE]
         ELSE [c |-> MoveToFront([cc EXCEPT !.ent[elem].timestamp = t], elem),
               value |-> cc.ent[elem].value, ok |-> TRUE]
    ELSE [c |-> cc, value |-> Zero, ok |-> FALSE]

\* Get, between Lock and Unlock: the struct after it, and what it returns
GetOp(cc, key, t) ==
    LET elem == cc.cache[key] IN
    IF elem # Nil
    THEN IF Expired(cc, elem, t)
         THEN [c |-> ListRemove(cc, elem), value |-> Zero, ok |-> FALSE]
         ELSE [c |-> MoveToFront(cc, elem), value |-> cc.ent[elem].value, ok |-> TRUE]
    ELSE [c |-> cc, value |-> Zero, ok |-> FALSE]

\* the eviction of the tail when the list is at capacity (Put and Load)
EvictIfFull(cc) ==
    IF ListLen(cc) >= cc.capacity
    THEN LET elem == Back(cc) IN ListRemove(MapDelete(cc, cc.ent[elem].key), elem)
    ELSE cc

\* a Put that refreshes an entry it finds without storing the new value
PutOpKeepsValue(cc, key, value, t) ==
    LET elem == cc.cache[key] IN
    IF elem # Nil
    THEN MoveToFront([cc EXCEPT !.ent[elem].timestamp = t], elem)
    ELSE PushFront(EvictIfFull(cc), key, value, t)

PutOp(cc, key, value, t) ==
    LET elem == cc.cache[key] IN
    IF elem # Nil
    THEN MoveToFront([cc EXCEPT !.ent[elem].value = value, !.ent[elem].timestamp = t], elem)
    ELSE PushFront(EvictIfFull(cc), key, value, t)

\* a Remove that deletes the map entry and leaves the element linked
RemoveOpMapOnly(cc, key) ==
    LET elem == cc.cache[key] IN
    IF elem # Nil THEN MapDelete(cc, key) ELSE cc

RemoveOp(cc, key) ==
    LET elem == cc.cache[key] IN
    IF elem # Nil THEN ListRemove(MapDelete(cc, key), elem) ELSE cc

\* a Load that returns whatever the map holds, expired or not
LoadLookupNoTtl(cc, key, t) ==
    LET elem == cc.cache[key] IN
    IF elem # Nil
    THEN [c |-> MoveToFront(cc, elem), hit |-> TRUE, value |-> cc.ent[elem].value]
    ELSE [c |-> cc, hit |-> FALSE, value |-> Zero]

\* Load up to the loader call: a hit returns, anything else goes on to the loader
LoadLookup(cc, key, t) ==
    LET elem == cc.cache[key] IN
    IF elem # Nil
    THEN IF Expired(cc, elem, t)
         THEN [c |-> ListRemove(cc, elem), hit |-> FALSE, value |-> Zero]
         ELSE [c |-> MoveToFront(cc, elem), hit |-> TRUE, value |-> cc.ent[elem].value]
    ELSE [c |-> cc, hit |-> FALSE, value |-> Zero]

\* a Load that stores what the loader returned even when it failed
LoadStoreKeepsFailure(cc, key, loader, t) ==
    [c |-> PushFront(EvictIfFull(cc), key, loader.value, t),
     value |-> loader.value, err |-> loader.err]

\* Load after the loader returned (value, err)
LoadStore(cc, key, loader, t) ==
    IF loader.err
    THEN [c |-> cc, value |-> loader.value, err |-> TRUE]
    ELSE [c |-> PushFront(EvictIfFull(cc), key, loader.value, t),
          value |-> loader.value, err |-> FALSE]

\* the whole of Load, the loader taking no time
LoadOp(cc, key, loader, t) ==
    LET look == LoadLookup(cc, key, t) IN
    IF look.hit
    THEN [c |-> look.c, value |-> look.value, err |-> FALSE, calls |-> 0]
    ELSE LET st == LoadStore(look.c, key, loader, t) IN
         [c |-> st.c, value |-> st.value, err |-> st.err, calls |-> 1]

\* the loop of RemoveExpired, entered with elem
RECURSIVE RemoveExpiredFrom(_, _, _)
RemoveExpiredFrom(cc, elem, t) ==
    IF elem = Nil
    THEN cc
    ELSE IF Expired(cc, elem, t)
         THEN LET removed == ListRemove(MapDelete(cc, cc.ent[elem].key), elem) IN
              RemoveExpiredFrom(removed, Prev(removed, elem), t)
         ELSE cc

RemoveExpiredOp(cc, t) == RemoveExpiredFrom(cc, Back(cc), t)

\* ------------------------------------------------- what callers may pass
\* a loader returns (value, nil) or (zero, error)
Loaders == [value : Values, err : {FALSE}] \cup {[value |-> Zero, err |-> TRUE]}

NoLoader == [value |-> Zero, err |-> FALSE]

Never == -1

NoLoad == [key |-> 0, value |-> 0]

NoReq == [op |-> "none", key |-> 0, value |-> 0, loader |-> NoLoader]

\* what a caller keeps of a call that returned: nothing yet
NoRes == [op |-> "none", key |-> 0, value |-> 0, err |-> FALSE, calls |-> 0,
          stored |-> Never, overlap |-> FALSE]

NoRet == [op |-> "none", key |-> 0, value |-> 0, ok |-> FALSE, err |-> FALSE,
          calls |-> 0, again |-> FALSE]

\* the last Put, or Load that stored, of key is more than ttl ago
Stale(key) == refreshed[key] # Never /\ Since(refreshed[key], now) > c.ttl

\* ------------------------------------------------------ the bookkeeping
\* An operation returns: the struct becomes c2; ret records the call and what
\* it returned; touch, refreshed, loadedBy, gone and written record the history the
\* properties speak about (they never feed back into the operations), and
\* forget a key once the map no longer holds it.
Finish(op, key, c2, value, ok, err, calls) ==
    LET touched == (op = "Get" /\ ok) \/ op = "Put" \/ (op = "Load" /\ ~err)
        stored == op = "Put" \/ (op = "Load" /\ calls = 1 /\ ~err)
        held == MapKeys(c2)
        t1 == IF touched THEN <<key>> \o Without(touch, key) ELSE touch
        r1 == IF stored THEN [refreshed EXCEPT ![key] = now] ELSE refreshed
        l1 == IF op = "Load" /\ calls = 1 /\ ~err
              THEN [key |-> key, value |-> value]
              ELSE IF op = "Put" /\ key = loadedBy.key THEN NoLoad ELSE loadedBy
        g1 == IF op = "Get" /\ Stale(key) THEN gone \cup {key}
              ELSE IF op \in {"Put", "Load"} THEN gone \ {key} ELSE gone
        w1 == IF stored THEN [written EXCEPT ![key] = value] ELSE written
    IN  /\ c' = Collect(c2)
        /\ ret' = [op |-> op, key |-> key, value |-> value, ok |-> ok, err |-> err,
                   calls |-> calls, again |-> key \in gone]
        /\ touch' = SelectSeq(t1, LAMBDA k : k \in held)
        /\ refreshed' = [k \in Keys |-> IF k \in held THEN r1[k] ELSE Never]
        /\ loadedBy' = IF l1.key \in held THEN l1 ELSE NoLoad
        /\ gone' = g1 \cap held
        /\ written' = [k \in Keys |-> IF k \in held THEN w1[k] ELSE 0]

\* ------------------------------------------- one caller, whole operations
InitCommon ==
    /\ now = 0
    /\ ret = NoRet
    /\ touch = <<>>
    /\ refreshed = [k \in Keys |-> Never]
    /\ loadedBy = NoLoad
    /\ gone = {}
    /\ written = [k \in Keys |-> 0]
    /\ pc = [t \in Threads |-> "idle"]
    /\ req = [t \in Threads |-> NoReq]
    /\ mu = Nil
    /\ res = [t \in Threads |-> NoRes]

Init ==
    /\ \E capacity \in 1..MaxCapacity, ttl \in 0..MaxTtl : c = NewInMemoryCache(capacity, ttl)
    /\ InitCommon

Get(key) ==
    LET r == GetOp(c, key, now) IN
    /\ Finish("Get", key, r.c, r.value, r.ok, FALSE, 0)
    /\ UNCHANGED <<now, pc, req, mu, res>>

Put(key, value) ==
    /\ Finish("Put", key, PutOp(c, key, value, now), value, TRUE, FALSE, 0)
    /\ UNCHANGED <<now, pc, req, mu, res>>

Remove(key) ==
    /\ Finish("Remove", key, RemoveOp(c, key), Zero, TRUE, FALSE, 0)
    /\ UNCHANGED <<now, pc, req, mu, res>>

RemoveExpired ==
    /\ Finish("RemoveExpired", 0, RemoveExpiredOp(c, now), Zero, TRUE, FALSE, 0)
    /\ UNCHANGED <<now, pc, req, mu, res>>

Load(key, loader) ==
    LET r == LoadOp(c, key, loader, now) IN
    /\ Finish("Load", key, r.c, r.value, ~r.err, r.err, r.calls)
    /\ UNCHANGED <<now, pc, req, mu, res>>

\* time passes between two operations
Tick ==
    /\ now < MaxTime
    /\ now' = now + 1
    /\ UNCHANGED <<c, ret, touch, refreshed, loadedBy, gone, written, pc, req, mu, res>>

Next ==
    \/ \E key \in Keys : Get(key)
    \/ \E key \in Keys, value \in Values : Put(key, value)
    \/ \E key \in Keys : Remove(key)
    \/ RemoveExpired
    \/ \E key \in Keys, loader \in Loaders : Load(key, loader)
    \/ Tick

Spec == Init /\ [][Next]_vars

\* --------------------------------- several callers, the mutex, the loader
ConcKeys == 1..ConcNumKeys

ConcValues == 1..ConcNumValues

ConcLoaders == [value : ConcValues, err : {FALSE}] \cup {[value |-> Zero, err |-> TRUE]}

\* the calls a thread may make
Requests ==
    [op : {"Get", "Remove"}, key : ConcKeys, value : {0}, loader : {NoLoader}]
    \cup [op : {"Put"}, key : ConcKeys, value : ConcValues, loader : {NoLoader}]
    \cup [op : {"RemoveExpired"}, key : {0}, value : {0}, loader : {NoLoader}]
    \cup [op : {"Load"}, key : ConcKeys, value : {0}, loader : ConcLoaders]

InitConc ==
    /\ \E capacity \in 1..MaxCapacity, ttl \in 0..MaxTtl : c = NewInMemoryCache(capacity, ttl)
    /\ InitCommon

\* a thread calls an operation and arrives at its c.mu.Lock()
Call(t, r) ==
    /\ pc[t] = "idle"
    /\ pc' = [pc EXCEPT ![t] = "lock"]
    /\ req' = [req EXCEPT ![t] = r]
    /\ UNCHANGED <<c, now, ret, touch, refreshed, loadedBy, gone, written, mu, res>>

\* a mutex its holder may lock again
CanLockReentrant(t) == mu = Nil \/ mu = t

\* a Lock that does not wait
CanLockAlways(t) == TRUE

\* sync.Mutex.Lock returns only once the mutex is free
CanLock(t) == mu = Nil

Lock(t) ==
    /\ pc[t] = "lock"
    /\ CanLock(t)
    /\ mu' = t
    /\ pc' = [pc EXCEPT ![t] = "held"]
    /\ UNCHANGED <<c, now, ret, touch, refreshed, loadedBy, gone, written, req, res>>

\* the body of Get, Put, Remove or RemoveExpired, from after Lock to the return
Body(t) ==
    /\ pc[t] = "held"
    /\ req[t].op \in {"Get", "Put", "Remove", "RemoveExpired"}
    /\ LET key == req[t].key
           g == GetOp(c, key, now)
       IN  CASE req[t].op = "Get" -> Finish("Get", key, g.c, g.value, g.ok, FALSE, 0)
             [] req[t].op = "Put" ->
                    Finish("Put", key, PutOp(c, key, req[t].value, now), req[t].value,
                           TRUE, FALSE, 0)
             [] req[t].op = "Remove" ->
                    Finish("Remove", key, RemoveOp(c, key), Zero, TRUE, FALSE, 0)
             [] req[t].op = "RemoveExpired" ->
                    Finish("RemoveExpired", 0, RemoveExpiredOp(c, now), Zero, TRUE, FALSE, 0)
    /\ pc' = [pc EXCEPT ![t] = "unlock"]
    /\ UNCHANGED <<now, req, mu, res>>

\* a Load that gives the mutex up while its loader runs
LoadBeginUnlocked(t) ==
    /\ pc[t] = "held"
    /\ req[t].op = "Load"
    /\ LET look == LoadLookup(c, req[t].key, now) IN
       IF look.hit
       THEN /\ Finish("Load", req[t].key, look.c, look.value, TRUE, FALSE, 0)
            /\ pc' = [pc EXCEPT ![t] = "unlock"]
            /\ mu' = mu
       ELSE /\ c' = look.c
            /\ pc' = [pc EXCEPT ![t] = "loader"]
            /\ mu' = Nil
            /\ UNCHANGED <<ret, touch, refreshed, loadedBy, gone, written>>
    /\ UNCHANGED <<now, req, res>>

\* Load from after Lock: a hit returns, anything else calls the loader
LoadBegin(t) ==
    /\ pc[t] = "held"
    /\ req[t].op = "Load"
    /\ LET look == LoadLookup(c, req[t].key, now) IN
       IF look.hit
       THEN /\ Finish("Load", req[t].key, look.c, look.value, TRUE, FALSE, 0)
            /\ pc' = [pc EXCEPT ![t] = "unlock"]
       ELSE /\ c' = look.c
            /\ pc' = [pc EXCEPT ![t] = "loader"]
            /\ UNCHANGED <<ret, touch, refreshed, loadedBy, gone, written>>
    /\ UNCHANGED <<now, req, mu, res>>

\* a Load whose return of the loader's error skips the Unlock
LoaderReturnKeepsLock(t) ==
    /\ pc[t] = "loader"
    /\ LET st == LoadStore(c, req[t].key, req[t].loader, now) IN
       /\ Finish("Load", req[t].key, st.c, st.value, ~st.err, st.err, 1)
       /\ pc' = [pc EXCEPT ![t] = IF st.err THEN "idle" ELSE "unlock"]
       /\ req' = [req EXCEPT ![t] = IF st.err THEN NoReq ELSE req[t]]
    /\ UNCHANGED <<now, mu, res>>

\* the loader returns and Load runs on to its return
LoaderReturn(t) ==
    /\ pc[t] = "loader"
    /\ LET st == LoadStore(c, req[t].key, req[t].loader, now) IN
       Finish("Load", req[t].key, st.c, st.value, ~st.err, st.err, 1)
    /\ pc' = [pc EXCEPT ![t] = "unlock"]
    /\ UNCHANGED <<now, req, mu, res>>

\* the deferred c.mu.Unlock(), and the return to the caller
Release(t) ==
    /\ pc[t] = "unlock"
    /\ mu' = Nil
    /\ pc' = [pc EXCEPT ![t] = "idle"]
    /\ req' = [req EXCEPT ![t] = NoReq]
    /\ UNCHANGED <<c, now, ret, touch, refreshed, loadedBy, gone, written>>

Unlock(t) ==
    /\ Release(t)
    /\ UNCHANGED res

TickConc ==
    /\ now < ConcMaxTime
    /\ now' = now + 1
    /\ UNCHANGED <<c, ret, touch, refreshed, loadedBy, gone, written, pc, req, mu, res>>

NextConc ==
    \/ \E t \in Threads, r \in Requests : Call(t, r)
    \/ \E t \in Threads : Lock(t)
    \/ \E t \in Threads : Body(t)
    \/ \E t \in Threads : LoadBegin(t)
    \/ \E t \in Threads : LoaderReturn(t)
    \/ \E t \in Threads : Unlock(t)
    \/ TickConc

SpecConc == InitConc /\ [][NextConc]_vars

\* ------------------------------------ every thread calls Load, once each
\* thread t calls Load with a loader of its own, which returns (t, nil)
LoadCall(t, key) ==
    /\ res[t] = NoRes
    /\ Call(t, [op |-> "Load", key |-> key, value |-> 0,
                loader |-> [value |-> t, err |-> FALSE]])

\* the return of Release, the caller keeping what its call returned: ret is
\* this call's, as the thread held the mutex since; stored is the time of the
\* store the value comes from, overlap whether another call was then waiting
UnlockKeep(t) ==
    /\ Release(t)
    /\ res' = [res EXCEPT ![t] =
                   [op |-> ret.op, key |-> ret.key, value |-> ret.value, err |-> ret.err,
                    calls |-> ret.calls,
                    stored |-> IF ret.key \in Keys THEN refreshed[ret.key] ELSE Never,
                    overlap |-> \E u \in Threads \ {t} : pc[u] = "lock"]]

NextLoads ==
    \/ \E t \in Threads, key \in ConcKeys : LoadCall(t, key)
    \/ \E t \in Threads : Lock(t)
    \/ \E t \in Threads : LoadBegin(t)
    \/ \E t \in Threads : LoaderReturn(t)
    \/ \E t \in Threads : UnlockKeep(t)
    \/ TickConc

SpecLoads == InitConc /\ [][NextLoads]_vars

\* ------------------------------------------------------- fair scheduling
\* a thread that can take its next step takes it (the scheduler runs every
\* goroutine, and every loader returns); a thread at Lock gets the mutex if
\* it is free again and again (sync.Mutex hands a starving waiter the mutex)
Fairness ==
    \A t \in Threads :
        /\ SF_vars(Lock(t))
        /\ WF_vars(Body(t))
        /\ WF_vars(LoadBegin(t))
        /\ WF_vars(LoaderReturn(t))
        /\ WF_vars(Unlock(t))

\* the calls of the fair specification: the five operations, on FairNumKeys
\* keys, with loaders that succeed and a loader that fails
FairRequests == {r \in Requests : r.key <= FairNumKeys}

NextFair ==
    \/ \E t \in Threads, r \in FairRequests : Call(t, r)
    \/ \E t \in Threads : Lock(t)
    \/ \E t \in Threads : Body(t)
    \/ \E t \in Threads : LoadBegin(t)
    \/ \E t \in Threads : LoaderReturn(t)
    \/ \E t \in Threads : Unlock(t)
    \/ TickConc

FairSpec == InitConc /\ [][NextFair]_vars /\ Fairness

\* ------------------------------- a loader that calls into the same cache
\* the loader of thread t's Load calls operation r of the cache it is loading
\* for: the call runs on t and arrives at its c.mu.Lock() while the outer
\* Load, below it on t's stack, still holds the mutex; the outer frame is
\* resumed only when the inner call returns
Reenter(t, r) ==
    /\ pc[t] = "loader"
    /\ mu = t
    /\ pc' = [pc EXCEPT ![t] = "lock"]
    /\ req' = [req EXCEPT ![t] = r]
    /\ UNCHANGED <<c, now, ret, touch, refreshed, loadedBy, gone, written, mu, res>>

NextReenter ==
    \/ NextConc
    \/ \E t \in Threads, r \in Requests : Reenter(t, r)

SpecReenter == InitConc /\ [][NextReenter]_vars

\* ------------------------------------------------------------ properties
\* the timestamp of the entry the map holds for key
Timestamp(cc, key) == cc.ent[cc.cache[key]].timestamp

\* the keys a Get at time t finds
Findable(cc, t) == {k \in Keys : GetOp(cc, k, t).ok}

\* the map holds key and its element is linked in the list
Linked(cc, key) == key \in MapKeys(cc) /\ cc.cache[key] \in Range(cc.list)

\* C1: the number of entries the cache holds, counted as the keys a Get still
\* finds and returns, never exceeds capacity.
C1_CapacityInvariant == Cardinality(Findable(c, now)) <= c.capacity

\* C2: the key set of the map is exactly the set of keys of the nodes linked in
\* the list, and every map entry points to a linked node.
C2_MapMatchesList ==
    /\ MapKeys(c) = Range(ListKeys(c))
    /\ \A k \in MapKeys(c) : c.cache[k] \in Range(c.list)

\* the entries the cache holds: the keys of the map, but those whose expiry a
\* Get or Load has already seen (unlinked then, and not stored again since)
Held(cc) == {k \in MapKeys(cc) : Linked(cc, k) \/ ~Stale(k)}

\* the key of Held least recently touched
LeastRecentlyTouched(cc) ==
    LET order == SelectSeq(touch, LAMBDA k : k \in Held(cc)) IN order[Len(order)]

\* C3: a Put or a storing Load of a key the map does not hold, into a full
\* cache, evicts exactly one entry: the one least recently touched among all
\* entries the cache holds.
C3_EvictsLeastRecentlyTouched ==
    \A k \in Keys \ MapKeys(c) :
        ListLen(c) >= c.capacity =>
            /\ \A v \in Values :
                   MapKeys(c) \ MapKeys(PutOp(c, k, v, now)) = {LeastRecentlyTouched(c)}
            /\ \A l \in Loaders :
                   ~l.err =>
                       MapKeys(c) \ MapKeys(LoadOp(c, k, l, now).c) = {LeastRecentlyTouched(c)}

C5_RemoveExpiredRemovesAll ==
    LET after == RemoveExpiredOp(c, now) IN
    \A e \in Range(after.list) : ~Expired(after, e, now)

C7_LoaderFailureLeavesNoTrace ==
    /\ \A k \in Keys : \A l \in Loaders :
           LET r == LoadOp(c, k, l, now) IN
           (l.err /\ r.calls = 1) =>
               /\ r.err /\ r.value = l.value
               /\ MapKeys(r.c) \subseteq MapKeys(c)
               /\ Range(r.c.list) \subseteq Range(c.list)
               /\ \A t \in now..MaxTime : ~GetOp(Collect(r.c), k, t).ok
    /\ (ret.op = "Load" /\ ret.err) => (ret.calls = 1 /\ ~GetOp(c, ret.key, now).ok)

C7_Witness ==
    /\ ret.op = "Load" /\ ret.err /\ ret.calls = 1
    /\ ret.key \in MapKeys(c)
    /\ ~GetOp(c, ret.key, now).ok

\* every key the map holds before and after, but those of except, keeps its timestamp
KeepsTimestamps(c1, c2, except) ==
    \A k \in (MapKeys(c1) \cap MapKeys(c2)) \ except : Timestamp(c1, k) = Timestamp(c2, k)

\* C8: an entry's timestamp is the time of the last Put of its key or Load of
\* its key that stored a loaded value: Get, a Load that hits or fails, Remove,
\* RemoveExpired and operations on other keys leave it alone.
C8_OnlyStoresRefresh ==
    /\ \A k \in MapKeys(c) : Timestamp(c, k) = refreshed[k]
    /\ \A k \in Keys :
           /\ KeepsTimestamps(c, GetOp(c, k, now).c, {})
           /\ KeepsTimestamps(c, RemoveOp(c, k), {})
           /\ \A v \in Values : KeepsTimestamps(c, PutOp(c, k, v, now), {k})
           /\ \A l \in Loaders :
                  LET r == LoadOp(c, k, l, now) IN
                  KeepsTimestamps(c, r.c, IF r.calls = 1 /\ ~r.err THEN {k} ELSE {})
    /\ KeepsTimestamps(c, RemoveExpiredOp(c, now), {})

C8_Witness ==
    /\ ret.op = "Get" /\ ret.ok
    /\ Timestamp(c, ret.key) < now
    /\ refreshed[ret.key] = Timestamp(c, ret.key)

InOperation(t) == pc[t] \in {"held", "loader", "unlock"}

\* C10: at most one operation executes at any time, the mutex being held by
\* its thread from the first read to the return, the loader's run included;
\* so no two loaders run at once, and while a loader runs the struct changes
\* only when that Load itself goes on.
C10_OneOperationAtATime ==
    /\ [](\A t1, t2 \in Threads : (InOperation(t1) /\ InOperation(t2)) => t1 = t2)
    /\ [](\A t \in Threads : InOperation(t) => mu = t)
    /\ [](Cardinality({t \in Threads : pc[t] = "loader"}) <= 1)
    /\ [][\A t \in Threads :
              pc[t] = "loader" =>
                  /\ \A u \in Threads \ {t} : pc'[u] \in {pc[u], "lock"}
                  /\ (c' # c \/ ret' # ret) => pc'[t] = "unlock"]_vars

C10_Witness ==
    \E t, u \in Threads :
        /\ pc[t] = "loader" /\ pc[u] = "lock"
        /\ req[u].op = "Load" /\ req[u].key # req[t].key

\* C12: Remove(k) changes nothing but k: a present k leaves both the map and
\* the list, an absent k leaves the struct as it is; every other entry keeps
\* its value, timestamp and place in the order; a Get(k) right after returns
\* not-found.
C12_RemoveOnlyTheKey ==
    \A k \in Keys :
        LET after == Collect(RemoveOp(c, k)) IN
        /\ k \notin MapKeys(after)
        /\ \A e \in Range(after.list) : after.ent[e].key # k
        /\ k \notin MapKeys(c) => after = c
        /\ \A j \in Keys \ {k} :
               /\ after.cache[j] = c.cache[j]
               /\ j \in MapKeys(c) => after.ent[c.cache[j]] = c.ent[c.cache[j]]
        /\ after.list = SelectSeq(c.list, LAMBDA e : c.ent[e].key # k)
        /\ ~GetOp(after, k, now).ok

C12_Witness ==
    /\ ret.op = "Remove"
    /\ ret.key \notin MapKeys(c)
    /\ Len(c.list) >= 1
    /\ \E k \in Keys : Linked(c, k) /\ Len(RemoveOp(c, k).list) < Len(c.list)

\* C13: a second RemoveExpired right after the first, no time passing, leaves
\* the state the first one left.
C13_RemoveExpiredIdempotent ==
    LET once == Collect(RemoveExpiredOp(c, now)) IN
    Collect(RemoveExpiredOp(once, now)) = once

\* C15: a Get that finds k, and a Load of k that calls no loader, return the
\* value last written by a Put of k or by a Load of k that stored its loader's
\* value; a Get right after Put(k, v) returns (v, found).
C15_ReturnsLastWritten ==
    /\ \A k \in Keys :
           /\ GetOp(c, k, now).ok => GetOp(c, k, now).value = written[k]
           /\ \A l \in Loaders :
                  LET r == LoadOp(c, k, l, now) IN
                  r.calls = 0 => (r.value = written[k] /\ ~r.err)
           /\ \A v \in Values :
                  LET g == GetOp(Collect(PutOp(c, k, v, now)), k, now) IN
                  g.ok /\ g.value = v
    /\ (ret.op = "Get" /\ ret.ok) => ret.value = written[ret.key]
    /\ (ret.op = "Load" /\ ret.calls = 0) => ret.value = written[ret.key]
    /\ (ret.op = "Put") => written[ret.key] = ret.value

C15_Witness ==
    /\ ret.op = "Get" /\ ret.ok
    /\ ret.value = written[ret.key]
    /\ loadedBy.key # ret.key
    /\ Len(c.list) = c.capacity
    /\ \E v \in Values : v # ret.value

\* C16: a Load calls its loader at most once, and calls it exactly when the
\* map does not hold the key or holds it stored more than ttl ago.
C16_LoaderCalledOnMissOnly ==
    /\ \A k \in Keys : \A l \in Loaders :
           LET r == LoadOp(c, k, l, now) IN
           /\ r.calls \in {0, 1}
           /\ r.calls = 1 <=> (k \notin MapKeys(c) \/ Stale(k))
    /\ ret.op = "Load" => ret.calls \in {0, 1}

C16_Witness ==
    /\ ret.op = "Load" /\ ret.calls = 1 /\ ~ret.err
    /\ ret.again

\* C17: along the list, front to back, timestamps never increase.
C17_AgeFollowsRecency ==
    \A i, j \in 1..Len(c.list) :
        i < j => c.ent[c.list[i]].timestamp >= c.ent[c.list[j]].timestamp

\* C18: right after RemoveExpired the list is empty or its tail is live.
C18_TailLiveAfterRemoveExpired ==
    LET after == RemoveExpiredOp(c, now) IN
    Len(after.list) = 0 \/ ~Expired(after, Back(after), now)

\* C19: after Put(k, v) the front node of the list is k's entry, with value v
\* and timestamp now; a Put of a key the map holds evicts nothing and keeps
\* the number of entries.
C19_PutMakesFront ==
    \A k \in Keys : \A v \in Values :
        LET after == PutOp(c, k, v, now) IN
        /\ Len(after.list) >= 1
        /\ after.list[1] = after.cache[k]
        /\ after.ent[after.list[1]] = [key |-> k, value |-> v, timestamp |-> now]
        /\ k \in MapKeys(c) =>
               /\ MapKeys(after) = MapKeys(c)
               /\ Len(after.list) = Len(c.list)

\* every thread's Load has returned, all of the same key
AllLoaded(key) == \A t \in Threads : res[t].op = "Load" /\ res[t].key = key

\* the time of the first store among the Loads that called their loader
FirstStore ==
    LET times == {res[t].stored : t \in {u \in Threads : res[u].calls = 1}} IN
    CHOOSE x \in times : \A y \in times : x <= y

\* C11: when every thread calls Load on the same absent key with loaders that
\* succeed, and the ttl does not elapse from the first store on, the loader is
\* called exactly once in all, and every call returns that one loaded value.
C11_OneLoaderForConcurrentLoads ==
    \A key \in ConcKeys :
        (/\ AllLoaded(key)
         /\ \E t \in Threads : res[t].calls = 1
         /\ Since(FirstStore, now) <= c.ttl)
        => /\ Cardinality({t \in Threads : res[t].calls = 1}) = 1
           /\ \A t \in Threads : res[t].calls \in {0, 1} /\ ~res[t].err
           /\ \A t, u \in Threads : res[t].value = res[u].value

C11_Witness ==
    \E key \in ConcKeys : \E t, u \in Threads :
        /\ AllLoaded(key)
        /\ t # u
        /\ res[t].calls = 1 /\ res[t].overlap /\ res[t].value = t
        /\ res[u].calls = 0 /\ res[u].value = t
        /\ Since(FirstStore, now) <= c.ttl

\* thread t is inside its own loader, at the c.mu.Lock() of an inner call
Wedged(t) == pc[t] = "lock" /\ mu = t

\* C14: once a loader has called an operation of the same cache, the inner
\* call stays at its Lock for ever with the outer Load still holding the
\* mutex, so the outer Load never returns; no other thread is or gets past its
\* own Lock, every waiting thread keeps waiting, and the cache never changes.
C14_ReentrantLoaderDeadlocks ==
    [][\A t \in Threads :
           /\ Wedged(t)' => \A u \in Threads \ {t} : pc'[u] \in {"idle", "lock"}
           /\ Wedged(t) => /\ Wedged(t)'
                           /\ \A u \in Threads : pc[u] = "lock" => pc'[u] = "lock"
                           /\ c' = c]_vars

C14_Witness ==
    \E t, u \in Threads :
        /\ t # u
        /\ Wedged(t)
        /\ pc[u] = "lock"
        /\ req[u].op = "Get"
        /\ req[t].op = "Put"

\* C20: under fair scheduling, with capacity >= 1 and loaders that return
\* without calling into the cache, every thread that has called an operation
\* and reached its Lock eventually has returned, the mutex no longer its own.
C20_EveryCallReturns ==
    \A t \in Threads : (pc[t] = "lock") ~> (pc[t] = "idle" /\ mu # t)

\* a waiting thread has the mutex after a Load returned its loader's error
C20_Witness ==
    \E t, u \in Threads :
        /\ t # u
        /\ ret.op = "Load" /\ ret.err
        /\ pc[t] = "idle"
        /\ pc[u] = "held" /\ mu = u
        /\ req[u].op = "RemoveExpired"
====
